---------------------------- MODULE Spec2Model ----------------------------
(***************************************************************************)
(* Model of the Food Donation Directory (src/food_wastage_app/app.py):     *)
(* the column matcher try_match_column, the normaliser ensure_schema, the  *)
(* CSV load/save pair, and the Streamlit session with its Add, Edit,       *)
(* Delete and Save handlers.                                               *)
(*                                                                         *)
(* Text is a sequence of one-character strings, so that trimming, case     *)
(* folding, regular-expression filtering and the CSV conversions are       *)
(* computed character by character.  The token "U+0663" stands for the     *)
(* single character ARABIC-INDIC DIGIT THREE.                              *)
(***************************************************************************)
EXTENDS Integers, Sequences, FiniteSets

VARIABLES
    df_cols,        \* try_match_column: the raw column names (argument)
    candidates,     \* try_match_column: the alias list (argument)
    matched,        \* try_match_column: <<result>> once called, <<>> before
    file,           \* the CSV at DATA_PATH: NoFile or [cols, rows] of text cells
    raw_df,         \* load_data's cached DataFrame, NoFrame until loaded
    sel,            \* the map_<k> selectbox widgets of the mapping prompt
    missing,        \* ensure_schema's list `missing` in the last script run
    mapping,        \* ensure_schema's mapping in the last script run
    df,             \* ensure_schema's result in the last script run (line 141)
    df2,            \* ensure_schema applied to df again, <<table>> or <<>>
    session_keys,   \* the keys present in st.session_state
    data,           \* st.session_state.data
    next_id,        \* st.session_state.next_id
    shown,          \* what the last script run put on the page
    max_seen,       \* the largest id the working table held this session
    written,        \* the table save_data last wrote, <<table>> or <<>>
    restarts        \* how often the server was restarted

vars == <<df_cols, candidates, matched, file, raw_df, sel, missing, mapping,
          df, df2, session_keys, data, next_id, shown, max_seen, written,
          restarts>>

matchVars == <<df_cols, candidates, matched>>
appVars == <<file, raw_df, sel, missing, mapping, df, df2, session_keys,
             data, next_id, shown, max_seen, written, restarts>>

----------------------------------------------------------------------------
(* Bounds *)

\* longest list of raw column names given to try_match_column on its own
MaxCols == 2
\* most rows of a raw table handed to ensure_schema on its own
MaxRawRows == 2
\* most records the working table holds before Add is no longer offered
MaxRows == 2
\* largest next_id at which Add is still offered
MaxNextId == 3
\* most restarts of the server in one run of the model
MaxRestarts == 1

----------------------------------------------------------------------------
(* Characters and text *)

UpperCase == <<"A", "B", "C", "D", "E", "F", "G", "H", "I", "J", "K", "L", "M",
               "N", "O", "P", "Q", "R", "S", "T", "U", "V", "W", "X", "Y", "Z">>
LowerCase == <<"a", "b", "c", "d", "e", "f", "g", "h", "i", "j", "k", "l", "m",
               "n", "o", "p", "q", "r", "s", "t", "u", "v", "w", "x", "y", "z">>
AsciiDigits == <<"0", "1", "2", "3", "4", "5", "6", "7", "8", "9">>

Range(s) == {s[i] : i \in DOMAIN s}

UpperSet == Range(UpperCase)
DigitSet == Range(AsciiDigits)

\* str.isspace for the characters of the model
Whitespace == {" ", "\t"}

\* re's \d on a str pattern: any Unicode decimal digit (category Nd)
UnicodeDigits == DigitSet \cup {"U+0663"}

\* the class [a-z0-9]
AlnumLower == Range(LowerCase) \cup DigitSet

\* str.lower, one character
LowerChar(c) ==
    IF c \in UpperSet
    THEN LowerCase[CHOOSE i \in DOMAIN UpperCase : UpperCase[i] = c]
    ELSE c

\* str.lower
Lower(s) == [i \in DOMAIN s |-> LowerChar(s[i])]

RECURSIVE LStrip(_)
LStrip(s) == IF s # <<>> /\ Head(s) \in Whitespace THEN LStrip(Tail(s)) ELSE s

RECURSIVE RStrip(_)
RStrip(s) ==
    IF s # <<>> /\ s[Len(s)] \in Whitespace
    THEN RStrip(SubSeq(s, 1, Len(s) - 1))
    ELSE s

\* str.strip
Strip(s) == RStrip(LStrip(s))

\* re.sub(r"[^X]+", "", s): the characters of s in class X, in order
KeepOnly(s, class) == SelectSeq(s, LAMBDA c : c \in class)

\* Python's "sub in s"
IsSubstring(sub, s) ==
    \E k \in 0 .. (Len(s) - Len(sub)) : SubSeq(s, k + 1, k + Len(sub)) = sub

----------------------------------------------------------------------------
(* Configuration *)

Fields == {"id", "city", "name", "role", "food_type", "meal_type", "phone",
           "email", "address", "notes"}

REQUIRED_COLUMNS ==
    [id |-> << <<"i", "d">>, <<"r", "e", "c", "o", "r", "d", "_", "i", "d">>, <<"s", "r", "_", "n", "o">>, <<"s", "n", "o">>, <<"i", "n", "d", "e", "x">> >>,
     city |-> << <<"c", "i", "t", "y">>, <<"l", "o", "c", "a", "t", "i", "o", "n">>, <<"a", "r", "e", "a">>, <<"d", "i", "s", "t", "r", "i", "c", "t">>, <<"p", "l", "a", "c", "e">>,
                 <<"t", "o", "w", "n">> >>,
     name |-> << <<"p", "r", "o", "v", "i", "d", "e", "r">>, <<"p", "r", "o", "v", "i", "d", "e", "r", "_", "n", "a", "m", "e">>, <<"n", "a", "m", "e">>, <<"o", "r", "g", "a", "n", "i", "s", "a", "t", "i", "o", "n">>,
                 <<"o", "r", "g", "a", "n", "i", "z", "a", "t", "i", "o", "n">>, <<"o", "r", "g">>, <<"n", "g", "o">>, <<"r", "e", "s", "t", "a", "u", "r", "a", "n", "t">> >>,
     role |-> << <<"r", "o", "l", "e">>, <<"t", "y", "p", "e">>, <<"e", "n", "t", "i", "t", "y">>, <<"p", "a", "r", "t", "y">>, <<"s", "t", "a", "k", "e", "h", "o", "l", "d", "e", "r">> >>,
     food_type |-> << <<"f", "o", "o", "d", "_", "t", "y", "p", "e">>, <<"f", "o", "o", "d">>, <<"c", "a", "t", "e", "g", "o", "r", "y">>, <<"c", "u", "i", "s", "i", "n", "e">> >>,
     meal_type |-> << <<"m", "e", "a", "l", "_", "t", "y", "p", "e">>, <<"m", "e", "a", "l">>, <<"c", "o", "u", "r", "s", "e">> >>,
     phone |-> << <<"p", "h", "o", "n", "e">>, <<"m", "o", "b", "i", "l", "e">>, <<"c", "o", "n", "t", "a", "c", "t">>, <<"c", "o", "n", "t", "a", "c", "t", "_", "n", "u", "m", "b", "e", "r">>,
                  <<"p", "h", "o", "n", "e", "_", "n", "o">>, <<"p", "h", "o", "n", "e", "_", "n", "u", "m", "b", "e", "r">> >>,
     email |-> << <<"e", "m", "a", "i", "l">>, <<"m", "a", "i", "l">>, <<"e", "m", "a", "i", "l", "_", "i", "d">> >>,
     address |-> << <<"a", "d", "d", "r", "e", "s", "s">>, <<"a", "d", "d", "r">>, <<"s", "t", "r", "e", "e", "t">> >>,
     notes |-> << <<"n", "o", "t", "e", "s">>, <<"r", "e", "m", "a", "r", "k", "s">>, <<"c", "o", "m", "m", "e", "n", "t">>, <<"c", "o", "m", "m", "e", "n", "t", "s">>,
                  <<"d", "e", "s", "c", "r", "i", "p", "t", "i", "o", "n">> >>]

DEFAULT_COLUMNS == <<"id", "city", "name", "role", "food_type", "meal_type",
                     "phone", "email", "address", "notes">>

\* the header text of each canonical column
ColumnText ==
    [id |-> <<"i", "d">>, city |-> <<"c", "i", "t", "y">>, name |-> <<"n", "a", "m", "e">>, role |-> <<"r", "o", "l", "e">>,
     food_type |-> <<"f", "o", "o", "d", "_", "t", "y", "p", "e">>, meal_type |-> <<"m", "e", "a", "l", "_", "t", "y", "p", "e">>,
     phone |-> <<"p", "h", "o", "n", "e">>, email |-> <<"e", "m", "a", "i", "l">>, address |-> <<"a", "d", "d", "r", "e", "s", "s">>,
     notes |-> <<"n", "o", "t", "e", "s">>]

\* the fields the mapping prompt insists on (line 54)
Mandatory == <<"city", "name", "role", "food_type", "phone">>

\* Python's None, where a column name is expected
None == <<"None">>

----------------------------------------------------------------------------
(* Helpers: normalize and try_match_column *)

normalize(s) == KeepOnly(Lower(Strip(s)), AlnumLower)

\* normalize applied to every name of a list (each name is normalised once
\* here, where the code normalises it again at every use)
RECURSIVE NormalizeAll(_)
NormalizeAll(names) ==
    IF names = <<>> THEN <<>>
    ELSE <<normalize(Head(names))>> \o NormalizeAll(Tail(names))

LastIndex(seq, x) ==
    CHOOSE i \in DOMAIN seq : seq[i] = x /\ \A j \in DOMAIN seq : seq[j] = x => j <= i

FirstIn(S) == CHOOSE i \in S : \A j \in S : i <= j

\* {normalize(c): c for c in df_cols}: a later column overwrites an earlier
\* one with the same key
nmap(cols, ncols) == [key \in Range(ncols) |-> cols[LastIndex(ncols, key)]]

\* the first loop: the first candidate whose key is in nmap
ExactPass(cols, ncols, ncands) ==
    LET hits == {i \in DOMAIN ncands : ncands[i] \in Range(ncols)}
    IN  IF hits = {} THEN None ELSE nmap(cols, ncols)[ncands[FirstIn(hits)]]

\* the second loop: the first column that contains some normalised alias
FuzzyPass(cols, ncols, ncands) ==
    LET hits == {c \in DOMAIN ncols :
                    \E a \in DOMAIN ncands : IsSubstring(ncands[a], ncols[c])}
    IN  IF hits = {} THEN None ELSE cols[FirstIn(hits)]

\* a matcher whose exact pass walks the columns instead of the aliases
try_match_column_by_column(cols, cands) ==
    LET ncols == NormalizeAll(cols)
        ncands == NormalizeAll(cands)
        hits == {c \in DOMAIN ncols : ncols[c] \in Range(ncands)}
    IN  IF hits # {} THEN cols[FirstIn(hits)]
        ELSE FuzzyPass(cols, ncols, ncands)

try_match_column(cols, cands) ==
    LET ncols == NormalizeAll(cols)
        ncands == NormalizeAll(cands)
        exact == ExactPass(cols, ncols, ncands)
    IN  IF exact # None THEN exact ELSE FuzzyPass(cols, ncols, ncands)

----------------------------------------------------------------------------
(* Values that stand for "nothing yet" *)

NoFile == [cols |-> <<None>>, rows |-> <<>>]
NoFrame == [cols |-> <<None>>, rows |-> <<>>]
NoMapping == [f \in Fields |-> None]
NoSelection == [k \in Range(Mandatory) |-> None]

\* st.session_state.next_id: absent before line 147 has run, then a number
\* or the float NaN
Unset == [t |-> "unset", n |-> 0]
NotANumber == [t |-> "nan", n |-> 0]
Number(v) == [t |-> "int", n |-> v]

\* the application is not running (try_match_column is exercised on its own)
AppIdle ==
    /\ file = NoFile /\ raw_df = NoFrame /\ sel = NoSelection
    /\ missing = {} /\ mapping = NoMapping /\ df = <<>> /\ df2 = <<>>
    /\ session_keys = {} /\ data = <<>> /\ next_id = Unset
    /\ shown = "nothing" /\ max_seen = -1 /\ written = <<>> /\ restarts = 0

\* try_match_column is not exercised on its own
MatchIdle == df_cols = <<>> /\ candidates = <<>> /\ matched = <<>>

----------------------------------------------------------------------------
(* try_match_column on its own *)

\* raw column names: variants of aliases, near misses, and unrelated names
MatchColumnNames ==
    { <<"v", "o", "i", "d">>, <<"I", "D">>, <<"S", "r", " ", "N", "o">>, <<"O", "r", "g">>, <<"n", "a", "m", "e">>, <<"P", "r", "o", "v", "i", "d", "e", "r">>,
      <<"C", "o", "n", "t", "a", "c", "t", " ", "N", "o">>, <<"P", "h", "o", "n", "e", " ", "N", "o", ".">>, <<"F", "o", "o", "d", " ", "T", "y", "p", "e">>, <<"T", "y", "p", "e">>, <<"C", "i", "t", "y">> }

RECURSIVE SeqsUpTo(_, _)
SeqsUpTo(S, n) ==
    IF n = 0 THEN {<<>>}
    ELSE LET shorter == SeqsUpTo(S, n - 1)
         IN  shorter \cup {Append(s, x) : s \in shorter, x \in S}

MatchInit ==
    /\ df_cols \in SeqsUpTo(MatchColumnNames, MaxCols)
    /\ candidates \in {REQUIRED_COLUMNS[f] : f \in Fields}
    /\ matched = <<>>
    /\ AppIdle

MatchColumn ==
    /\ matched = <<>>
    /\ matched' = <<try_match_column(df_cols, candidates)>>
    /\ UNCHANGED <<df_cols, candidates>>
    /\ UNCHANGED appVars

MatchNext == MatchColumn

SpecMatch == MatchInit /\ [][MatchNext]_vars

\* the normalised form as the specification words it
LoweredAlnum(s) == SelectSeq(Lower(s), LAMBDA c : c \in AlnumLower)

\* sub occurs in s at some offset
OccursIn(sub, s) ==
    \E k \in 1 .. (Len(s) - Len(sub) + 1) :
        \A i \in 1 .. Len(sub) : s[k + i - 1] = sub[i]

\* the aliases that exact-match some raw column
ExactAliases ==
    {a \in DOMAIN candidates :
        \E c \in DOMAIN df_cols :
            LoweredAlnum(df_cols[c]) = LoweredAlnum(candidates[a])}

\* the raw columns that contain some alias
ContainingColumns ==
    {c \in DOMAIN df_cols :
        \E a \in DOMAIN candidates :
            OccursIn(LoweredAlnum(candidates[a]), LoweredAlnum(df_cols[c]))}

Least(S) == CHOOSE x \in S : \A y \in S : x <= y

\* C3: try_match_column returns (1) a raw column whose normalised name equals
\* the normalised form of the earliest alias that exact-matches any column;
\* (2) only if no alias exact-matches, the first raw column in column order
\* that contains some normalised alias; (3) None otherwise.
C3_ResolveColumn ==
    matched # <<>> =>
        IF ExactAliases # {}
        THEN /\ matched[1] \in Range(df_cols)
             /\ LoweredAlnum(matched[1])
                    = LoweredAlnum(candidates[Least(ExactAliases)])
        ELSE IF ContainingColumns # {}
             THEN matched[1] = df_cols[Least(ContainingColumns)]
             ELSE matched[1] = None

\* an exact match was returned although an earlier column contains an alias,
\* and the matching alias is not the first of the list
C3_Witness ==
    /\ matched # <<>>
    /\ ExactAliases # {}
    /\ Least(ExactAliases) > 1
    /\ ContainingColumns # {}
    /\ matched[1] # df_cols[Least(ContainingColumns)]

----------------------------------------------------------------------------
(* DataFrame cells and the CSV conversions *)

\* a cell of a DataFrame: missing (NaN), int64, float64 or str.  A number is
\* kept as its decimal digits without leading zeros, so that it has no width.
NaN == [t |-> "nan", s |-> <<>>]
IntCell(digits) == [t |-> "int", s |-> digits]
FloatCell(digits) == [t |-> "float", s |-> digits]
StrCell(text) == [t |-> "str", s |-> text]

\* the digits of int(text): leading zeros dropped
RECURSIVE ParseInt(_)
ParseInt(text) ==
    IF Len(text) > 1 /\ Head(text) = "0" THEN ParseInt(Tail(text)) ELSE text

\* str(n) for n >= 0
RECURSIVE IntText(_)
IntText(v) ==
    IF v < 10 THEN <<AsciiDigits[v + 1]>>
    ELSE IntText(v \div 10) \o <<AsciiDigits[(v % 10) + 1]>>

\* some of the strings read_csv takes for a missing value, besides the
\* empty field
NAStrings == { <<"N", "A">>, <<"N", "a", "N">>, <<"n", "a", "n">>, <<"n", "u", "l", "l">>, <<"N", "o", "n", "e">> }

IsNA(text) == text = <<>> \/ text \in NAStrings

IsDecimal(text) == text # <<>> /\ \A i \in DOMAIN text : text[i] \in DigitSet

\* read_csv's type of one column: an empty field is missing; a column of
\* decimal numbers is int64, or float64 as soon as a value is missing;
\* anything else keeps its text.  (Signs, fractions and exponents do not
\* occur in the files of this model.)
ParseColumn(texts) ==
    LET present == {i \in DOMAIN texts : ~IsNA(texts[i])}
        numeric == \A i \in present : IsDecimal(texts[i])
        holes == present # DOMAIN texts
    IN  [i \in DOMAIN texts |->
            IF IsNA(texts[i]) THEN NaN
            ELSE IF numeric
                 THEN IF holes THEN FloatCell(ParseInt(texts[i]))
                      ELSE IntCell(ParseInt(texts[i]))
                 ELSE StrCell(texts[i])]

read_csv(f) ==
    LET column(j) == ParseColumn([i \in DOMAIN f.rows |-> f.rows[i][j]])
    IN  [cols |-> f.cols,
         rows |-> [i \in DOMAIN f.rows |->
                      [j \in DOMAIN f.cols |-> column(j)[i]]]]

\* load_data without its cache: an empty frame with the default columns
\* when there is no file
load_data(f) ==
    IF f = NoFile
    THEN [cols |-> [j \in DOMAIN DEFAULT_COLUMNS |-> ColumnText[DEFAULT_COLUMNS[j]]],
          rows |-> <<>>]
    ELSE read_csv(f)

\* str(v), also what astype(str) gives: "nan", "7", "7.0" (integral floats
\* below 1e16), or the text itself
CellStr(c) ==
    CASE c.t = "nan" -> <<"n", "a", "n">>
      [] c.t = "int" -> c.s
      [] c.t = "float" -> c.s \o <<".", "0">>
      [] OTHER -> c.s

\* DataFrame.to_csv(index=False) of a table with the default columns
to_csv(table) ==
    [cols |-> [j \in DOMAIN DEFAULT_COLUMNS |-> ColumnText[DEFAULT_COLUMNS[j]]],
     rows |-> [i \in DOMAIN table |->
                 [j \in DOMAIN DEFAULT_COLUMNS |->
                     IF DEFAULT_COLUMNS[j] = "id"
                     THEN IntText(table[i].id)
                     ELSE table[i][DEFAULT_COLUMNS[j]]]]]

save_data(table) == to_csv(table)

\* a table of normalised records as the DataFrame it is in memory
AsFrame(table) ==
    [cols |-> [j \in DOMAIN DEFAULT_COLUMNS |-> ColumnText[DEFAULT_COLUMNS[j]]],
     rows |-> [i \in DOMAIN table |->
                 [j \in DOMAIN DEFAULT_COLUMNS |->
                     IF DEFAULT_COLUMNS[j] = "id"
                     THEN IntCell(IntText(table[i].id))
                     ELSE StrCell(table[i][DEFAULT_COLUMNS[j]])]]]

----------------------------------------------------------------------------
(* ensure_schema *)

Provider == <<"P", "r", "o", "v", "i", "d", "e", "r">>
Receiver == <<"R", "e", "c", "e", "i", "v", "e", "r">>

\* lines 48-51
BuildMapping(frame) ==
    [id |-> try_match_column(frame.cols, REQUIRED_COLUMNS.id),
     city |-> try_match_column(frame.cols, REQUIRED_COLUMNS.city),
     name |-> try_match_column(frame.cols, REQUIRED_COLUMNS.name),
     role |-> try_match_column(frame.cols, REQUIRED_COLUMNS.role),
     food_type |-> try_match_column(frame.cols, REQUIRED_COLUMNS.food_type),
     meal_type |-> try_match_column(frame.cols, REQUIRED_COLUMNS.meal_type),
     phone |-> try_match_column(frame.cols, REQUIRED_COLUMNS.phone),
     email |-> try_match_column(frame.cols, REQUIRED_COLUMNS.email),
     address |-> try_match_column(frame.cols, REQUIRED_COLUMNS.address),
     notes |-> try_match_column(frame.cols, REQUIRED_COLUMNS.notes)]

\* line 54
MissingIn(map) == {k \in Range(Mandatory) : map[k] = None}

\* lines 57-62: each missing field takes its selectbox's value
Prompted(map, selection) ==
    [id |-> map.id,
     city |-> IF map.city = None THEN selection.city ELSE map.city,
     name |-> IF map.name = None THEN selection.name ELSE map.name,
     role |-> IF map.role = None THEN selection.role ELSE map.role,
     food_type |-> IF map.food_type = None THEN selection.food_type
                   ELSE map.food_type,
     meal_type |-> map.meal_type,
     phone |-> IF map.phone = None THEN selection.phone ELSE map.phone,
     email |-> map.email,
     address |-> map.address,
     notes |-> map.notes]

\* a prompt that stops only when every missing field is left unselected
StopsIfAllUnselected(miss, map) ==
    miss # {} /\ \A k \in miss : map[k] = None

\* line 63: st.stop() when a missing field was left at None
Stops(miss, map) == \E k \in miss : map[k] = None

\* lines 67-73: the column of `target`; a mapped column is copied, an
\* unmapped one is "".  id is assigned first, to a frame that has no rows
\* yet, so an unmapped id is missing in every row once the next column gives
\* the frame its index.
Projected(frame, map, target, i) ==
    IF \E j \in DOMAIN frame.cols : frame.cols[j] = map[target]
    THEN frame.rows[i][CHOOSE j \in DOMAIN frame.cols : frame.cols[j] = map[target]]
    ELSE IF target = "id" THEN NaN ELSE StrCell(<<>>)

\* pd.factorize(cells)[0]: the rank of each value among the distinct values
\* in order of first appearance; -1 for a missing value
factorize(cells) ==
    LET first(i) == CHOOSE j \in DOMAIN cells :
                        /\ cells[j] = cells[i]
                        /\ \A k \in DOMAIN cells : cells[k] = cells[i] => j <= k
    IN  [i \in DOMAIN cells |->
            IF cells[i] = NaN THEN -1
            ELSE Cardinality({j \in 1 .. (first(i) - 1) :
                                 cells[j] # NaN /\ first(j) = j})]

\* lines 76-81
CoerceId(cells) ==
    IF \/ \A i \in DOMAIN cells : cells[i] = NaN
       \/ \A i \in DOMAIN cells : cells[i] = StrCell(<<>>)
    THEN [i \in DOMAIN cells |-> i]
    ELSE [i \in DOMAIN cells |-> factorize(cells)[i] + 1]

\* a role normaliser that forgets to lower-case
normalize_role_case_sensitive(v) ==
    LET t == Strip(CellStr(v))
    IN  IF \/ IsSubstring(<<"r", "e", "c", "e", "i", "v">>, t)
           \/ t \in { <<"r", "e", "c", "e", "i", "v", "e", "r">>, <<"a", "c", "c", "e", "p", "t", "o", "r">>, <<"b", "e", "n", "e", "f", "i", "c", "i", "a", "r", "y">> }
        THEN Receiver
        ELSE Provider

\* lines 84-88
normalize_role(v) ==
    LET t == Lower(Strip(CellStr(v)))
    IN  IF \/ IsSubstring(<<"r", "e", "c", "e", "i", "v">>, t)
           \/ t \in { <<"r", "e", "c", "e", "i", "v", "e", "r">>, <<"a", "c", "c", "e", "p", "t", "o", "r">>, <<"b", "e", "n", "e", "f", "i", "c", "i", "a", "r", "y">> }
        THEN Receiver
        ELSE IF t # <<>> THEN Provider ELSE Provider

\* re.sub(r"\D+", "", x)
StripNonDigits(text) == KeepOnly(text, UnicodeDigits)

\* line 95, and the text a cell then shows
FillNa(c) == IF c = NaN THEN <<>> ELSE CellStr(c)

\* lines 66-96, for a mapping that did not stop the run
Unified(frame, map) ==
    LET ids == CoerceId([i \in DOMAIN frame.rows |-> Projected(frame, map, "id", i)])
    IN  [i \in DOMAIN frame.rows |->
            [id |-> ids[i],
             city |-> FillNa(Projected(frame, map, "city", i)),
             name |-> FillNa(Projected(frame, map, "name", i)),
             role |-> normalize_role(Projected(frame, map, "role", i)),
             food_type |-> FillNa(Projected(frame, map, "food_type", i)),
             meal_type |-> FillNa(Projected(frame, map, "meal_type", i)),
             phone |-> StripNonDigits(CellStr(Projected(frame, map, "phone", i))),
             email |-> FillNa(Projected(frame, map, "email", i)),
             address |-> FillNa(Projected(frame, map, "address", i)),
             notes |-> FillNa(Projected(frame, map, "notes", i))]]

\* ensure_schema: the mapping, whether the run stopped, and the table
ensure_schema(frame, selection) ==
    LET found == BuildMapping(frame)
        map == Prompted(found, selection)
        stop == Stops(MissingIn(found), map)
    IN  [missing |-> MissingIn(found),
         mapping |-> map,
         stopped |-> stop,
         table |-> IF stop THEN <<>> ELSE <<Unified(frame, map)>>]

----------------------------------------------------------------------------
(* The Streamlit session: every action is one run of the script *)

Ids(table) == {table[i].id : i \in DOMAIN table}

Max(S) == CHOOSE x \in S : \A y \in S : y <= x

\* line 147: Series.max() of no rows is NaN, NaN is truthy, so `or 0` does
\* not replace it, and NaN + 1 is NaN
InitialNextId(table) ==
    IF table = <<>> THEN NotANumber ELSE Number(Max(Ids(table)) + 1)

\* line 132: load_data behind st.cache_data
CachedLoad == IF raw_df = NoFrame THEN load_data(file) ELSE raw_df

\* lines 132-147 under the widget values `selection`: what the run makes of
\* the frame, and the session's table and counter after lines 144-147
Script(selection) ==
    LET r == ensure_schema(CachedLoad, selection)
        started == ~r.stopped /\ "data" \notin session_keys
    IN  [missing |-> r.missing,
         mapping |-> r.mapping,
         stopped |-> r.stopped,
         table |-> r.table,
         keys |-> IF r.stopped THEN session_keys ELSE {"data", "next_id"},
         data |-> IF started THEN r.table[1] ELSE data,
         next_id |-> IF started THEN InitialNextId(r.table[1]) ELSE next_id]

\* what the page shows after a run: the mapping prompt's warning and nothing
\* below it ("stopped"), the page with no message ("page"), the page with a
\* handler's st.success ("success"), st.error ("error") or st.info ("info"),
\* or the page cut short by an exception in add_form's handler ("exception")
halted == shown = "stopped"

\* lines 132-147 of a run that starts a session or follows a change of the
\* mapping prompt
RunScript(s) ==
    /\ raw_df' = CachedLoad
    /\ missing' = s.missing
    /\ mapping' = s.mapping
    /\ df' = s.table
    /\ session_keys' = s.keys
    /\ data' = s.data
    /\ next_id' = s.next_id
    /\ max_seen' = Max({max_seen} \cup Ids(s.data))
    /\ shown' = IF s.stopped THEN "stopped" ELSE "page"
    /\ UNCHANGED <<file, written, df2, restarts>>
    /\ UNCHANGED matchVars

\* lines 132-147 of a run triggered by a form or a button: load_data returns
\* the cached frame and the widgets of the prompt are as they were, so
\* ensure_schema computes the same mapping and the same df again, does not
\* stop (the form was on the page), and lines 144-147 find both keys set
SameScript ==
    /\ UNCHANGED <<raw_df, sel, missing, mapping, df, df2, session_keys,
                   restarts>>
    /\ UNCHANGED matchVars

\* a run whose handler changes neither the table nor the file
NoHandler == UNCHANGED <<data, next_id, max_seen, file, written>>

Form(name, role, city, food_type, meal_type, phone) ==
    [name |-> name, role |-> role, city |-> city, food_type |-> food_type,
     meal_type |-> meal_type, phone |-> phone, email |-> <<>>,
     address |-> <<>>, notes |-> <<>>]

\* what a user types into add_form or edit_form
FormInputs ==
    { Form(<<" ", "A", "l", " ">>, Receiver, <<"G", "o", "a">>, <<"R", "i", "c", "e">>, <<" ", "L">>, <<"+", "U+0663", "1">>),
      Form(<<>>, Provider, <<"P", "u", "n", "e">>, <<"V", "e", "g">>, <<>>, <<"9", "8", "-", "7">>),
      Form(<<" ">>, Provider, <<"P", "u", "n", "e">>, <<"V", "e", "g">>, <<>>, <<"9", "8", "-", "7">>) }

\* the first session starts on no file, or on one of these files
ScenarioHeader ==
    << <<"S", "r", " ", "N", "o">>, <<"O", "r", "g">>, <<"T", "y", "p", "e">>, <<"C", "i", "t", "y">>, <<"F", "o", "o", "d">>, <<"C", "o", "n", "t", "a", "c", "t", " ", "N", "o">> >>

NoCityNoRoleHeader == << <<"O", "r", "g">>, <<"F", "o", "o", "d">>, <<"P", "h", "o", "n", "e", " ", "N", "o", ".">> >>

SavedHeader ==
    [j \in DOMAIN DEFAULT_COLUMNS |-> ColumnText[DEFAULT_COLUMNS[j]]]

InitialFiles ==
    { NoFile,
      [cols |-> SavedHeader,
       rows |-> << << <<"1">>, <<"P", "u", "n", "e">>, <<"H", "H">>, <<"a", "c", "c", "e", "p", "t", "o", "r">>, <<"V", "e", "g">>, <<>>,
                      <<"9", "8", "7">>, <<>>, <<>>, <<>> >>,
                   << <<"2">>, <<"G", "o", "a">>, <<"A", "l">>, <<>>, <<"R", "i", "c", "e">>, <<"L">>,
                      <<>>, <<>>, <<>>, <<>> >> >>],
      [cols |-> ScenarioHeader,
       rows |-> << << <<"A", "1">>, <<"H", "e", "l", "p", "i", "n", "g", " ", "H", "a", "n", "d", "s">>, <<" ", "R", "E", "C", "E", "I", "V", "I", "N", "G", " ">>, <<"P", "u", "n", "e">>,
                      <<"V", "e", "g", " ", "M", "e", "a", "l", "s">>, <<"9", "8", "-", "7">> >>,
                   << <<"A", "1">>, <<"A", "l">>, <<"B", "e", "n", "e", "f", "i", "c", "i", "a", "r", "y">>, <<"G", "o", "a">>, <<"R", "i", "c", "e">>,
                      <<"0", "7">> >> >>],
      [cols |-> NoCityNoRoleHeader, rows |-> <<>>] }

Init ==
    /\ file \in InitialFiles
    /\ raw_df = NoFrame
    /\ sel = NoSelection
    /\ missing = {}
    /\ mapping = NoMapping
    /\ df = <<>>
    /\ df2 = <<>>
    /\ session_keys = {}
    /\ data = <<>>
    /\ next_id = Unset
    /\ shown = "nothing"
    /\ max_seen = -1
    /\ written = <<>>
    /\ restarts = 0
    /\ MatchIdle

\* the browser opens the page: the first run of a session
Open ==
    /\ raw_df = NoFrame
    /\ sel' = sel
    /\ RunScript(Script(sel))

\* the user changes one selectbox of the mapping prompt (lines 58-62)
SelectMapping ==
    /\ raw_df # NoFrame
    /\ \E k \in missing :
         \E c \in {None} \cup Range(raw_df.cols) :
            /\ c # sel[k]
            /\ sel' = [sel EXCEPT ![k] = c]
            /\ RunScript(Script([sel EXCEPT ![k] = c]))

\* add_form is on the page the last run left
AddRendered == shown \notin {"nothing", "stopped"}

\* so are the widgets below it: an exception in the add handler ends the
\* run before they are drawn
BelowAddRendered == AddRendered /\ shown # "exception"

\* lines 232-243 (and 282-291)
NewRow(rid, f) ==
    [id |-> rid,
     city |-> Strip(f.city),
     name |-> Strip(f.name),
     role |-> f.role,
     food_type |-> Strip(f.food_type),
     meal_type |-> Strip(f.meal_type),
     phone |-> StripNonDigits(f.phone),
     email |-> Strip(f.email),
     address |-> Strip(f.address),
     notes |-> Strip(f.notes)]

\* line 227 (line 278 leaves out the role, which a selectbox never leaves
\* empty)
FailsValidation(f) ==
    \/ f.name = <<>>
    \/ f.role = <<>>
    \/ f.city = <<>>
    \/ f.food_type = <<>>

\* lines 109-110 as every handler calls them: the table goes to the file
Save(table) ==
    /\ file' = save_data(table)
    /\ written' = <<table>>
    /\ max_seen' = Max({max_seen} \cup Ids(table))

\* lines 230-246: the record is appended and the file written
AddRecord(f) ==
    /\ next_id' = Number(next_id.n + 1)
    /\ data' = Append(data, NewRow(next_id.n, f))
    /\ Save(Append(data, NewRow(next_id.n, f)))
    /\ shown' = "success"

\* add_form is submitted (lines 226-246)
Add ==
    /\ AddRendered
    /\ SameScript
    /\ \E f \in FormInputs :
          IF FailsValidation(f)
          THEN NoHandler /\ shown' = "error"
          ELSE IF next_id.t # "int"
          THEN \* int(NaN) raises ValueError at line 230
               NoHandler /\ shown' = "exception"
          ELSE /\ Len(data) < MaxRows
               /\ next_id.n <= MaxNextId
               /\ AddRecord(f)

\* lines 281-292: every row with the selected id takes the form's values
Edited(table, sel_id, f) ==
    [i \in DOMAIN table |->
        IF table[i].id = sel_id THEN NewRow(sel_id, f) ELSE table[i]]

\* lines 281-294
EditRecord(sel_id, f) ==
    /\ data' = Edited(data, sel_id, f)
    /\ Save(Edited(data, sel_id, f))
    /\ shown' = "success"
    /\ UNCHANGED next_id

\* edit_form is submitted for the selected id (lines 277-294)
Edit ==
    /\ BelowAddRendered
    /\ SameScript
    /\ \E sel_id \in Ids(data) :
         \E f \in FormInputs :
            IF FailsValidation(f)
            THEN NoHandler /\ shown' = "error"
            ELSE EditRecord(sel_id, f)

\* line 301
Deleted(table, del_ids) == SelectSeq(table, LAMBDA r : r.id \notin del_ids)

\* "Delete Selected" is pressed (lines 299-305)
Delete ==
    /\ BelowAddRendered
    /\ SameScript
    /\ \E del_ids \in SUBSET Ids(data) :
          IF del_ids = {}
          THEN NoHandler /\ shown' = "info"
          ELSE /\ data' = Deleted(data, del_ids)
               /\ Save(Deleted(data, del_ids))
               /\ shown' = "success"
               /\ UNCHANGED next_id

\* "Save All Changes" is pressed (lines 310-312)
SaveAll ==
    /\ BelowAddRendered
    /\ SameScript
    /\ Save(data)
    /\ shown' = "success"
    /\ UNCHANGED <<data, next_id>>

\* the page is run again with no widget changed
Rerun ==
    /\ shown \notin {"nothing", "stopped", "page"}
    /\ SameScript
    /\ NoHandler
    /\ shown' = "page"

\* the server is restarted: the cache and the session are gone, the file stays
Restart ==
    /\ raw_df # NoFrame
    /\ restarts < MaxRestarts
    /\ restarts' = restarts + 1
    /\ raw_df' = NoFrame
    /\ sel' = NoSelection
    /\ missing' = {}
    /\ mapping' = NoMapping
    /\ df' = <<>>
    /\ session_keys' = {}
    /\ data' = <<>>
    /\ next_id' = Unset
    /\ max_seen' = -1
    /\ shown' = "nothing"
    /\ UNCHANGED <<file, written, df2>>
    /\ UNCHANGED matchVars

Next ==
    \/ Open
    \/ SelectMapping
    \/ Add
    \/ Edit
    \/ Delete
    \/ SaveAll
    \/ Rerun
    \/ Restart

Spec == Init /\ [][Next]_vars

----------------------------------------------------------------------------
(* ensure_schema on its own: once on a raw table, and again on its result *)

SchemaHeader ==
    << <<"I", "D">>, <<"O", "r", "g">>, <<"T", "y", "p", "e">>, <<"C", "i", "t", "y">>, <<"F", "o", "o", "d">>, <<"C", "o", "n", "t", "a", "c", "t", " ", "N", "o">> >>

\* the raw id of a row: blank, a number, or a text
SchemaIdTexts == { <<>>, <<"7">>, <<"3">>, <<"A", "1">> }

SchemaRowTails ==
    { << <<"H", "H">>, <<" ", "R", "E", "C", "E", "I", "V", "I", "N", "G", " ">>, <<"P", "u", "n", "e">>, <<"V", "e", "g">>, <<"9", "8", "-", "7">> >>,
      << <<"A", "l">>, <<>>, <<"G", "o", "a">>, <<"R", "i", "c", "e">>, <<>> >> }

SchemaRows == {<<i>> \o t : i \in SchemaIdTexts, t \in SchemaRowTails}

\* a raw file and the values of the mapping prompt's widgets
SchemaInputs ==
    {[file |-> [cols |-> SchemaHeader, rows |-> r], sel |-> NoSelection] :
        r \in SeqsUpTo(SchemaRows, MaxRawRows)}
    \cup
    {[file |-> [cols |-> NoCityNoRoleHeader,
                rows |-> << << <<"H", "H">>, <<"V", "e", "g">>, <<"9", "8", "7">> >> >>],
      sel |-> [NoSelection EXCEPT !.city = c, !.role = r]] :
        c \in {None, <<"O", "r", "g">>}, r \in {None, <<"F", "o", "o", "d">>}}
    \cup
    {[file |-> NoFile, sel |-> NoSelection]}

SchemaInit ==
    /\ \E x \in SchemaInputs : file = x.file /\ sel = x.sel
    /\ raw_df = NoFrame
    /\ missing = {}
    /\ mapping = NoMapping
    /\ df = <<>>
    /\ df2 = <<>>
    /\ session_keys = {}
    /\ data = <<>>
    /\ next_id = Unset
    /\ shown = "nothing"
    /\ max_seen = -1
    /\ written = <<>>
    /\ restarts = 0
    /\ MatchIdle

schemaVars == <<file, sel, session_keys, data, next_id, max_seen, written,
                restarts>>

\* line 132
SchemaLoad ==
    /\ raw_df = NoFrame
    /\ raw_df' = load_data(file)
    /\ UNCHANGED <<missing, mapping, df, df2, shown>>
    /\ UNCHANGED schemaVars
    /\ UNCHANGED matchVars

\* line 141
SchemaNormalize ==
    /\ raw_df # NoFrame
    /\ shown = "nothing"
    /\ LET r == ensure_schema(raw_df, sel)
       IN  /\ missing' = r.missing
           /\ mapping' = r.mapping
           /\ df' = r.table
           /\ shown' = IF r.stopped THEN "stopped" ELSE "page"
    /\ UNCHANGED <<raw_df, df2>>
    /\ UNCHANGED schemaVars
    /\ UNCHANGED matchVars

\* ensure_schema applied to the table it returned
SchemaNormalizeAgain ==
    /\ df # <<>>
    /\ df2 = <<>>
    /\ df2' = ensure_schema(AsFrame(df[1]), NoSelection).table
    /\ UNCHANGED <<raw_df, missing, mapping, df, shown>>
    /\ UNCHANGED schemaVars
    /\ UNCHANGED matchVars

SchemaNext ==
    \/ SchemaLoad
    \/ SchemaNormalize
    \/ SchemaNormalizeAgain

SpecSchema == SchemaInit /\ [][SchemaNext]_vars

----------------------------------------------------------------------------
(* The claims about ensure_schema *)

\* the raw id of row i: the cell of the column the mapping gives to id,
\* missing when no column is mapped
OriginalId(i) ==
    IF \E j \in DOMAIN raw_df.cols : raw_df.cols[j] = mapping.id
    THEN raw_df.rows[i][Least({j \in DOMAIN raw_df.cols :
                                  raw_df.cols[j] = mapping.id})]
    ELSE NaN

\* C1: after the id repair the ids are exactly 1..k for some k <= row count;
\* when every raw id is blank row i gets id i; otherwise two rows get the
\* same id if and only if they carried the same raw id.
C1_IdRepair ==
    df # <<>> =>
        LET t == df[1]
        IN  /\ \E k \in 0 .. Len(t) : Ids(t) = 1 .. k
            /\ IF \A i \in DOMAIN t : OriginalId(i) = NaN
               THEN \A i \in DOMAIN t : t[i].id = i
               ELSE \A i, j \in DOMAIN t :
                       (t[i].id = t[j].id) <=> (OriginalId(i) = OriginalId(j))

\* C7: ensure_schema applied to its own result returns that result.
C7_Idempotent == df2 # <<>> => df2 = df

----------------------------------------------------------------------------
(* The claims about the session *)

\* C2: every record of the working table has a positive integer id, and no
\* two records share an id.
C2_UniquePositiveIds ==
    /\ \A i \in DOMAIN data : data[i].id \in Nat \ {0}
    /\ \A i, j \in DOMAIN data : data[i].id = data[j].id => i = j

\* the normalised forms of a list of names
RECURSIVE LoweredAlnumAll(_)
LoweredAlnumAll(names) ==
    IF names = <<>> THEN <<>>
    ELSE <<LoweredAlnum(Head(names))>> \o LoweredAlnumAll(Tail(names))

\* the normalised aliases of the mandatory fields
AliasForms ==
    [city |-> LoweredAlnumAll(REQUIRED_COLUMNS.city),
     name |-> LoweredAlnumAll(REQUIRED_COLUMNS.name),
     role |-> LoweredAlnumAll(REQUIRED_COLUMNS.role),
     food_type |-> LoweredAlnumAll(REQUIRED_COLUMNS.food_type),
     phone |-> LoweredAlnumAll(REQUIRED_COLUMNS.phone)]

\* the mandatory fields that the raw columns of normalised names `forms`
\* leave unresolved: no column's name equals or contains an alias of the field
UnresolvedAmong(forms) ==
    {k \in Range(Mandatory) :
        \A c \in DOMAIN forms :
            \A a \in DOMAIN AliasForms[k] :
                ~OccursIn(AliasForms[k][a], forms[c])}

\* the mandatory fields no raw column of the loaded frame resolves
Unresolved ==
    UNION {UnresolvedAmong(forms) : forms \in {LoweredAlnumAll(raw_df.cols)}}

\* C4: a run halts exactly when some unresolved mandatory field is left at
\* None in the prompt; a halted run has no normalised table and leaves the
\* session's keys, table and counter and the file as they were; a run that
\* proceeds has all five mandatory fields mapped to raw columns.
C4_HardStop ==
    /\ [](shown # "nothing" =>
            /\ halted <=> (\E k \in Unresolved : sel[k] = None)
            /\ halted => df = <<>>
            /\ ~halted => \A k \in Range(Mandatory) :
                              mapping[k] \in Range(raw_df.cols))
    /\ [][halted' => UNCHANGED <<session_keys, data, next_id, file, written>>]_vars

\* the load halted on a prompt in which one of two unresolved fields was
\* selected and the other left at None, before any session table existed
C4_Witness ==
    /\ halted
    /\ session_keys = {}
    /\ \E k \in Unresolved : sel[k] = None
    /\ \E k \in Unresolved : sel[k] # None

\* the raw role of row i as text: the cell of the column mapped to role
RawRoleText(i) ==
    LET c == raw_df.rows[i][Least({j \in DOMAIN raw_df.cols :
                                      raw_df.cols[j] = mapping.role})]
    IN  IF c.t = "nan" THEN <<>> ELSE c.s

\* lower-cased and trimmed, the text names a receiver
NamesReceiver(text) ==
    LET t == Strip(Lower(text))
    IN  \/ OccursIn(<<"r", "e", "c", "e", "i", "v">>, t)
        \/ t = <<"r", "e", "c", "e", "i", "v", "e", "r">>
        \/ t = <<"a", "c", "c", "e", "p", "t", "o", "r">>
        \/ t = <<"b", "e", "n", "e", "f", "i", "c", "i", "a", "r", "y">>

\* C5: every record of the working table has role "Provider" or "Receiver";
\* the normalised role is "Receiver" exactly when the lower-cased, trimmed
\* raw value contains "receiv" or is "receiver", "acceptor" or "beneficiary",
\* and "Provider" otherwise, also for a blank value.
C5_Roles ==
    /\ \A i \in DOMAIN data : data[i].role \in {Provider, Receiver}
    /\ df # <<>> =>
          \A i \in DOMAIN df[1] :
              df[1][i].role =
                  IF NamesReceiver(RawRoleText(i)) THEN Receiver ELSE Provider

\* a raw role in capitals with spaces around it was loaded as "Receiver", and
\* the table has since been changed and written
C5_Witness ==
    /\ df # <<>>
    /\ \E i \in DOMAIN df[1] :
          RawRoleText(i) = <<" ", "R", "E", "C", "E", "I", "V", "I", "N", "G", " ">> /\ df[1][i].role = Receiver
    /\ written # <<>>
    /\ data # df[1]
    /\ \E i \in DOMAIN data : data[i].role = Provider

\* the raw phone of row i as text: what the file held in that field
RawPhoneText(i) ==
    LET c == raw_df.rows[i][Least({j \in DOMAIN raw_df.cols :
                                      raw_df.cols[j] = mapping.phone})]
    IN  IF c.t = "nan" THEN <<>> ELSE c.s

\* C6: every phone of the working table consists of the digits 0-9 only (or
\* is empty), and the normalised phone is the raw value's digits in their
\* order.
C6_PhoneDigits ==
    /\ \A i \in DOMAIN data : Range(data[i].phone) \subseteq DigitSet
    /\ df # <<>> =>
          \A i \in DOMAIN df[1] :
              df[1][i].phone =
                  SelectSeq(RawPhoneText(i), LAMBDA c : c \in DigitSet)

\* the step is a successful Add: a record was appended and confirmed
AddSucceeds == shown' = "success" /\ Len(data') = Len(data) + 1

\* C8: a successful Add gives the new record an id above every id the table
\* has held in the session (1 when it held none) and raises next_id by one;
\* no Add ends in an exception, in particular not the first Add to the empty
\* table of a missing file.
C8_FreshIds ==
    [][/\ shown' # "exception"
       /\ AddSucceeds =>
             /\ data'[Len(data')].id > max_seen
             /\ max_seen = -1 => data'[Len(data')].id = 1
             /\ next_id.t = "int" /\ next_id'.t = "int"
             /\ next_id'.n = next_id.n + 1]_vars

\* the ids of the table are positive and distinct
WellNumbered(table) ==
    /\ \A i \in DOMAIN table : table[i].id >= 1
    /\ \A i, j \in DOMAIN table : table[i].id = table[j].id => i = j

\* the step is the first run of a new session on a file save_data wrote from
\* a table of positive, distinct ids
Reloads ==
    /\ raw_df = NoFrame
    /\ written # <<>>
    /\ WellNumbered(written[1])
    /\ shown' = "page"

\* C9: a new session that loads the written file has the records of the
\* written table, in their order, each with the id it was written with
\* (stated for written tables whose ids are positive and distinct).
C9_RoundTrip ==
    [][Reloads =>
          /\ Len(data') = Len(written[1])
          /\ \A i \in DOMAIN data' : data'[i].id = written[1][i].id]_vars

\* the records the step put into the table
Stored == Range(data') \ Range(data)

\* C10: a successful Add or Edit stores only records whose name, city and
\* food_type are non-empty, so an input that is empty or only whitespace is
\* refused; a refused Add or Edit changes neither the table nor next_id nor
\* the file.
C10_RequiredFields ==
    [][/\ shown' = "success" =>
             \A r \in Stored :
                 r.name # <<>> /\ r.city # <<>> /\ r.food_type # <<>>
       /\ shown' = "error" => UNCHANGED <<data, next_id, file>>]_vars

=============================================================================
